---- MODULE Spec2Model ----
(***************************************************************************)
(* Model of src/src/utils/error-handler.ts (class ErrorHandler): the       *)
(* action wrapper, the diagnostics capturer, the retry controller and the  *)
(* condition poller, as one single-threaded asynchronous call at a time.   *)
(* Every await of the source is a step; the page handle and the wrapped    *)
(* action / predicate are the environment and answer nondeterministically. *)
(***************************************************************************)
EXTENDS Integers, Sequences, FiniteSets, TLC

VARIABLES
    pc,          \* position of the running call
    op,          \* the public method that was called ("none" before the call)
    context,     \* the ErrorContext object passed by the caller (its reference)
    options,     \* the options object passed by the caller
    outcome,     \* how the promise returned to the caller settled
    calls,       \* invocations of the wrapped action / predicate so far
    running,     \* invocations of the action / predicate that have not settled
    caught,      \* error in the catch variable (wrapAction) / lastError (retryAction)
    attempt,     \* retryAction's loop counter
    delay,       \* retryAction's computed delay, waiting to be slept
    waits,       \* arguments of the page.waitForTimeout calls that completed
    log,         \* records handed to the logger, in order
    dq,          \* captureDiagnostics: index of the next page query
    diagnostics, \* value captureDiagnostics returned
    now,         \* Date.now()
    startTime,   \* waitForCondition's startTime
    sawTrue,     \* the predicate has resolved true in this call
    sawThrow,    \* the predicate has thrown in this call
    returned,    \* value the wrapped action last resolved with
    failedQuery, \* the page query that threw in this call
    holdsFrom,   \* instant from which the polled predicate holds for good, if any
    \* tests/support/hooks.ts
    browser,      \* module variable `browser`: "undefined" or "set"
    browserAlive, \* the launched browser process has not been closed
    hookContext,  \* module variable `context`: 0 (undefined) or the id of a context
    openContexts, \* ids of the browser contexts that are open
    abandoned,    \* ids of the contexts whose close() rejected
    created,      \* number of contexts the hooks have created
    scenarioCount, \* number of scenarios the runner has started
    hook,         \* position of the running hook / of the runner between hooks
    hookResult,   \* how the hook that finished last settled
    \* the hooks with artifact capture
    cfgHook,      \* position of the runner / of the running hook
    cfgStep,      \* index of the awaited call the running hook is at
    cfgOptions,   \* config.screenshot.enabled, config.trace.enabled, the @ui tag
    cfgContext,   \* the context Before created: "none", "open" or "closed"
    worldPage,    \* this.page of the scenario's World is set
    status,       \* result.status of the scenario
    failedStep,   \* the awaited call that threw in the running hook
    cfgResult,    \* how After settled
    \* tests/data/data-managers.ts
    dataCache,    \* TestDataManager.dataCache: cache key -> cached value
    disk,         \* content of the data files on disk
    latest,       \* per file name: value of the latest successful save or read
                  \* since the cache was last cleared
    lastCall,     \* the last call of the TestDataManager and how it ended
    \* CustomReporter
    stats,           \* CustomReporter.stats: the counters
    scenarios,       \* CustomReporter.scenarios
    currentScenario, \* CustomReporter.currentScenario: Undefined or Some(name)
    inFlight,        \* test cases the runner has started and not finished
    startedCases,    \* number of test cases the runner has started
    \* NetworkHelper
    networkLogs,       \* NetworkHelper.networkLogs
    requestTimestamps, \* NetworkHelper.requestTimestamps: url -> time, 0 when absent
    listeners,         \* number of 'request' / 'response' listener pairs on the page
    requestsInFlight,  \* requests the page has sent and not yet got a response for
    requestCount,      \* number of requests the page has sent
    captured,          \* requests sent while capture was on
    netClock           \* Date.now() as the listeners read it, in requests sent

\* the state of the ErrorHandler calls
handlerVars == <<pc, op, context, options, outcome, calls, running, caught, attempt,
          delay, waits, log, dq, diagnostics, now, startTime, sawTrue, sawThrow,
          returned, failedQuery, holdsFrom>>
\* the state of tests/support/hooks.ts
hooksVars == <<browser, browserAlive, hookContext, openContexts, abandoned, created,
               scenarioCount, hook, hookResult>>
\* the state of the hooks with artifact capture
cfgVars == <<cfgHook, cfgStep, cfgOptions, cfgContext, worldPage, status, failedStep,
             cfgResult>>
\* the state of the TestDataManager and its files
dataVars == <<dataCache, disk, latest, lastCall>>
\* the state of the CustomReporter and of the runner that feeds it
reporterVars == <<stats, scenarios, currentScenario, inFlight, startedCases>>
\* the state of the NetworkHelper and of the page it listens to
networkVars == <<networkLogs, requestTimestamps, listeners, requestsInFlight, requestCount,
                 captured, netClock>>
\* everything but the ErrorHandler calls
outsideHandler == <<hooksVars, cfgVars, dataVars, reporterVars, networkVars>>
\* everything but the hooks
outsideHooks == <<handlerVars, cfgVars, dataVars, reporterVars, networkVars>>
\* everything but the hooks with artifact capture
outsideCfg == <<handlerVars, hooksVars, dataVars, reporterVars, networkVars>>
\* everything but the TestDataManager
outsideData == <<handlerVars, hooksVars, cfgVars, reporterVars, networkVars>>
\* everything but the CustomReporter
outsideReporter == <<handlerVars, hooksVars, cfgVars, dataVars, networkVars>>
\* everything but the NetworkHelper
outsideNetwork == <<handlerVars, hooksVars, cfgVars, dataVars, reporterVars>>

vars == <<handlerVars, hooksVars, cfgVars, dataVars, reporterVars, networkVars>>

----------------------------------------------------------------------------
(* Bounds of the model                                                      *)

\* largest maxRetries a caller supplies
MaxRetriesBound == 4
\* longest time one evaluation of the predicate takes, in units of EvalUnit ms
MaxEvalUnits == 1
\* scenarios the runner starts in one process
MaxScenarios == 3
\* test cases of one test run
MaxTestCases == 3
\* requests the page sends
MaxRequests == 2
\* calls of startCapturingLogs without a stopCapturingLogs in between
MaxListeners == 2

----------------------------------------------------------------------------
(* JavaScript values                                                        *)

\* an optional property: absent (undefined) or present with one value
Undefined == {}
Some(x) == {x}
ValueOf(opt) == CHOOSE x \in opt : TRUE

\* `x || d` on a number: undefined and 0 are falsy
OrNumber(opt, d) == IF opt = Undefined \/ opt = Some(0) THEN d ELSE ValueOf(opt)
\* `x || d` on a string: undefined and '' are falsy
OrString(opt, d) == IF opt = Undefined \/ opt = Some("") THEN d ELSE ValueOf(opt)

\* String(n) inside a template literal
Digit(n) == CASE n = 0 -> "0" [] n = 1 -> "1" [] n = 2 -> "2" [] n = 3 -> "3"
              [] n = 4 -> "4" [] n = 5 -> "5" [] n = 6 -> "6" [] n = 7 -> "7"
              [] n = 8 -> "8" [] n = 9 -> "9"
RECURSIVE NumberToString(_)
NumberToString(n) ==
    IF n < 0 THEN <<"-">> \o NumberToString(0 - n)
    ELSE IF n < 10 THEN <<Digit(n)>>
    ELSE NumberToString(n \div 10) \o <<Digit(n % 10)>>

\* Math.min
Min(a, b) == IF a <= b THEN a ELSE b

----------------------------------------------------------------------------
(* ErrorContext and errors                                                  *)

\* The ErrorContext objects callers pass, by reference: two objects are told
\* apart by their reference, whatever their fields. "ctxC" is the context of a
\* nested helper whose TestError the wrapped action may raise.
ContextRefs == {"ctxA", "ctxB"}

\* An error object. id is its identity (reference); message is the string as
\* the sequence of the parts it was concatenated from; context is the reference
\* of the attached ErrorContext and originalError the identity of the attached
\* error, "undefined" / NoId on errors that carry none.
ErrorObj(id, name, message, ctx, original) ==
    [id |-> id, name |-> name, message |-> message, context |-> ctx,
     originalError |-> original]
NoId == <<"undefined">>
NoError == ErrorObj(<<"none">>, "none", <<>>, "undefined", NoId)

\* new TestError(message, context, originalError?)
TestError(message, ctx, original) ==
    ErrorObj(<<"new TestError">>, "TestError", message, ctx,
             IF original = NoError THEN NoId ELSE original.id)

\* What the wrapped action can reject with on its n-th invocation: a plain
\* Error, an Error with an empty message, the driver's TimeoutError, and a
\* TestError built elsewhere (a nested helper) with a context of its own.
ActionErrors(n) ==
    LET k == NumberToString(n) IN
    { ErrorObj(<<"action.Error">> \o k, "Error", <<"boom">>, "undefined", NoId),
      ErrorObj(<<"action.Empty">> \o k, "Error", <<>>, "undefined", NoId),
      ErrorObj(<<"action.Timeout">> \o k, "TimeoutError", <<"timeout">>, "undefined", NoId),
      ErrorObj(<<"action.Nested">> \o k, "TestError", <<"inner">>, "ctxC", NoId) }

\* What a query on the page rejects with when it fails
PageError(query) ==
    ErrorObj(<<"page", query>>, "Error", <<"Target page, context or browser has been closed">>,
             "undefined", NoId)

\* Values the wrapped action resolves with
ActionValues == {"v1", "v2"}

Pending == [kind |-> "pending", value |-> "none", error |-> NoError]
Resolved(v) == [kind |-> "resolve", value |-> v, error |-> NoError]
Rejected(e) == [kind |-> "reject", value |-> "none", error |-> e]

LogRecord(level, message) == [level |-> level, message |-> message]

NoOptions == [maxRetries |-> Undefined, initialDelay |-> Undefined, maxDelay |-> Undefined,
              timeout |-> Undefined, interval |-> Undefined, errorMessage |-> Undefined]

\* TestDataManager: file names, values, and the content of a file
FileNames == {"users.json", "products.json"}
\* a value with a Date in it does not survive JSON; one with a cycle has no JSON
DataValues == {"users", "withDate", "circular"}
Absent == "absent"
Missing == <<"missing">>
Garbage == <<"not JSON">>
\* JSON.stringify(data, null, 2): a Date becomes its ISO string
Stringify(d) == IF d = "withDate" THEN <<"json", "withDateString">> ELSE <<"json", d>>
\* JSON.parse(fileContent)
Parse(content) == content[2]
FileContents == {Missing, Garbage} \cup {Stringify(d) : d \in DataValues \ {"circular"}}
\* data-managers.ts:39,69  the cache key of a file name, with the name left out
CacheKeyShared(fileName) == [prefix |-> "file:", name |-> ""]
\* data-managers.ts:39,69  `file:${fileName}`
CacheKey(fileName) == [prefix |-> "file:", name |-> fileName]
\* the keys the Map can hold
CacheKeys == {[prefix |-> "file:", name |-> n] : n \in FileNames \cup {""}}
\* a call of the TestDataManager as its caller saw it: `prior` is the value of
\* `latest` for the file when the call started, `read` whether readFileSync ran
Call(name, file, kind, value, prior, read) ==
    [op |-> name, file |-> file, kind |-> kind, value |-> value, prior |-> prior,
     read |-> read]
NoCall == Call("none", "none", "none", Absent, Absent, FALSE)

\* NetworkHelper: the URLs the page requests and the status codes it gets
Urls == {"/api/cart", "/api/items"}
StatusCodes == {200, 404}

\* how a hook settled, as the runner sees it
HookResult(h, kind, error) == [hook |-> h, kind |-> kind, error |-> error]
NoHookResult == HookResult("none", "none", "none")
NoDiagnostics == [shape |-> "none", keys |-> {}, error |-> ""]

----------------------------------------------------------------------------
Init ==
    /\ pc = "idle"
    /\ op = "none"
    /\ context = "undefined"
    /\ options = NoOptions
    /\ outcome = Pending
    /\ calls = 0
    /\ running = 0
    /\ caught = NoError
    /\ attempt = 0
    /\ delay = 0
    /\ waits = <<>>
    /\ log = <<>>
    /\ dq = 0
    /\ diagnostics = NoDiagnostics
    /\ now = 0
    /\ startTime = 0
    /\ sawTrue = FALSE
    /\ sawThrow = FALSE
    /\ returned = "none"
    /\ failedQuery = "none"
    /\ holdsFrom = Undefined
    /\ browser = "undefined"
    /\ browserAlive = FALSE
    /\ hookContext = 0
    /\ openContexts = {}
    /\ abandoned = {}
    /\ created = 0
    /\ scenarioCount = 0
    /\ hook = "idle"
    /\ hookResult = NoHookResult
    /\ cfgHook = "idle"
    /\ cfgStep = 0
    /\ cfgOptions = [screenshot |-> FALSE, trace |-> FALSE, ui |-> FALSE]
    /\ cfgContext = "none"
    /\ worldPage = FALSE
    /\ status = "none"
    /\ failedStep = "none"
    /\ cfgResult = "none"
    /\ dataCache = [k \in CacheKeys |-> Absent]
    /\ disk = [f \in FileNames |-> Missing]
    /\ latest = [f \in FileNames |-> Absent]
    /\ lastCall = NoCall
    /\ stats = [total |-> 0, passed |-> 0, failed |-> 0, skipped |-> 0, pending |-> 0]
    /\ scenarios = <<>>
    /\ currentScenario = Undefined
    /\ inFlight = {}
    /\ startedCases = 0
    /\ networkLogs = <<>>
    /\ requestTimestamps = [u \in Urls |-> 0]
    /\ listeners = 0
    /\ requestsInFlight = {}
    /\ requestCount = 0
    /\ captured = {}
    /\ netClock = 1

----------------------------------------------------------------------------
(* Inputs                                                                   *)

MaxRetriesInputs == {Undefined} \cup {Some(n) : n \in (0 - 1)..MaxRetriesBound}
InitialDelayInputs == {Undefined, Some(0), Some(100), Some(4000)}
MaxDelayInputs == {Undefined, Some(0), Some(1000)}
\* <<timeout, interval>> of the options of waitForCondition
TimingInputs ==
    { <<Undefined, Undefined>>, <<Undefined, Some(10000)>>, <<Some(0), Some(10000)>>,
      <<Some(0 - 1), Undefined>>, <<Some(1000), Undefined>>, <<Some(1200), Some(0)>>,
      <<Some(1200), Some(1000)>>, <<Some(2500), Some(1000)>>, <<Some(1), Undefined>> }
ErrorMessageInputs == {Undefined, Some(""), Some("Element never appeared")}
\* the polled predicate: arbitrary (Undefined), or false / throwing until an
\* instant from which it holds for good
HoldsFromInputs == {Undefined, Some(0), Some(600), Some(1100)}

\* milliseconds that pass between the Date.now() of line 182 and the first
\* loop test of line 184
ClockTicks == {0, 1}
\* time one evaluation of the predicate takes
EvalDurations == {500 * k : k \in 0..MaxEvalUnits}

----------------------------------------------------------------------------
(* wrapAction, handleError, captureDiagnostics                              *)

Logged(level, message) == log' = Append(log, LogRecord(level, message))

\* error-handler.ts:38  `return await action()`: the action is started
WrapActionCall ==
    /\ pc = "idle"
    /\ \E ctx \in ContextRefs : context' = ctx
    /\ op' = "wrapAction"
    /\ calls' = calls + 1
    /\ running' = running + 1
    /\ pc' = "wrapAction.await"
    /\ UNCHANGED <<options, outcome, caught, attempt, delay, waits, log, dq,
                   diagnostics, now, startTime, sawTrue,
                   sawThrow, returned, failedQuery, holdsFrom>>
    /\ UNCHANGED outsideHandler

\* a catch block that wraps what it caught: throw new TestError(message, context, error)
WrapActionNormalize(error) == Rejected(TestError(error.message, context, error))
\* error-handler.ts:41  the catch block's `throw error`, once handleError resolved
WrapActionRethrow(error) == Rejected(error)

\* `return await action()` with the value dropped
ReturnNothing(v) == Resolved("undefined")
\* error-handler.ts:38,114  `return await action()`: the caller gets the value
ReturnValue(v) == Resolved(v)

\* a catch block that invokes the action once more before it gives up
WrapActionSettleRetriesOnce ==
    /\ pc = "wrapAction.await"
    /\ \/ /\ \E v \in ActionValues : returned' = v /\ outcome' = ReturnValue(v)
          /\ running' = running - 1
          /\ pc' = "done"
          /\ UNCHANGED <<caught, calls>>
       \/ /\ \E e \in ActionErrors(calls) : caught' = e
          /\ IF calls < 2
             THEN calls' = calls + 1 /\ UNCHANGED <<pc, running>>
             ELSE pc' = "handleError" /\ running' = running - 1 /\ UNCHANGED calls
          /\ UNCHANGED <<outcome, returned>>
    /\ UNCHANGED <<op, context, options, attempt, delay, waits, log, dq,
                   diagnostics, now, startTime, sawTrue, sawThrow, failedQuery, holdsFrom>>
    /\ UNCHANGED outsideHandler

\* the action settles: its value is returned, or its error enters the catch block
WrapActionSettle ==
    /\ pc = "wrapAction.await"
    /\ running' = running - 1
    /\ \/ /\ \E v \in ActionValues : returned' = v /\ outcome' = ReturnValue(v)
          /\ pc' = "done"
          /\ UNCHANGED caught
       \/ /\ \E e \in ActionErrors(calls) : caught' = e
          /\ pc' = "handleError"
          /\ UNCHANGED <<outcome, returned>>
    /\ UNCHANGED <<op, context, options, calls, attempt, delay, waits, log, dq,
                   diagnostics, now, startTime, sawTrue,
                   sawThrow, failedQuery, holdsFrom>>
    /\ UNCHANGED outsideHandler

\* error-handler.ts:49  `error.message || 'Unknown error'`
ErrorMessageOf(error) == IF error.message = <<>> THEN <<"Unknown error">> ELSE error.message

\* error-handler.ts:51-58  what handleError does when page.url() throws while
\* the argument of logger.error is built: nothing catches it
HandleErrorUrlThrows(error, urlError) == Rejected(urlError)

\* error-handler.ts:48-59  handleError up to the diagnostics try block
HandleError ==
    /\ pc = "handleError"
    /\ \E ok \in BOOLEAN :
         IF ok
         THEN /\ Logged("error", <<"Test action failed">> \o ErrorMessageOf(caught))
              /\ pc' = "captureDiagnostics"
              /\ dq' = 1
              /\ UNCHANGED <<outcome, failedQuery>>
         ELSE /\ outcome' = HandleErrorUrlThrows(caught, PageError("url"))
              /\ failedQuery' = "handleError.url"
              /\ pc' = "done"
              /\ UNCHANGED <<log, dq>>
    /\ UNCHANGED <<op, context, options, calls, running, caught, attempt, delay,
                   waits, diagnostics, now, startTime, sawTrue,
                   sawThrow, returned, holdsFrom>>
    /\ UNCHANGED outsideHandler

\* the page queries of captureDiagnostics, in evaluation order
DiagQueries == <<"url", "title", "viewportSize", "cookies", "evaluate.localStorage",
                 "evaluate.sessionStorage", "evaluate.userAgent">>

\* error-handler.ts:74-87  the object returned when every query answered
FullSnapshot ==
    [shape |-> "snapshot",
     keys |-> {"url", "title", "viewport", "cookies", "localStorage", "sessionStorage",
               "userAgent", "timestamp"},
     error |-> ""]

Completion(kind, value, error) == [kind |-> kind, value |-> value, error |-> error]

\* a catch block that lets the query's error escape
CaptureDiagnosticsRethrow(error) == Completion("throw", NoDiagnostics, error)
\* error-handler.ts:88-90  the catch block of captureDiagnostics
CaptureDiagnosticsCatch(error) ==
    Completion("return",
               [shape |-> "error", keys |-> {"error"}, error |-> "Failed to capture diagnostics"],
               NoError)

\* error-handler.ts:73-91  one query of captureDiagnostics: it answers or throws
CaptureDiagnosticsQuery(q, ok) ==
    IF ok
    THEN IF q = Len(DiagQueries)
         THEN Completion("return", FullSnapshot, NoError)
         ELSE Completion("next", NoDiagnostics, NoError)
    ELSE CaptureDiagnosticsCatch(PageError(DiagQueries[q]))

\* error-handler.ts:72  captureDiagnostics called by a client
CaptureDiagnosticsCall ==
    /\ pc = "idle"
    /\ op' = "captureDiagnostics"
    /\ pc' = "captureDiagnostics"
    /\ dq' = 1
    /\ UNCHANGED <<context, options, outcome, calls, running, caught, attempt, delay,
                   waits, log, diagnostics, now, startTime, sawTrue,
                   sawThrow, returned, failedQuery, holdsFrom>>
    /\ UNCHANGED outsideHandler

\* One query of captureDiagnostics and, when it ends the capture, the caller's
\* continuation: the client's promise settles, or handleError logs the result
\* (error-handler.ts:61-66) and wrapAction rethrows (error-handler.ts:41).
CaptureDiagnostics ==
    /\ pc = "captureDiagnostics"
    /\ \E ok \in BOOLEAN :
         LET r == CaptureDiagnosticsQuery(dq, ok) IN
         /\ failedQuery' = IF ok THEN failedQuery ELSE DiagQueries[dq]
         /\ CASE r.kind = "next" ->
                /\ dq' = dq + 1
                /\ UNCHANGED <<pc, outcome, diagnostics, log>>
           [] r.kind = "return" /\ op = "captureDiagnostics" ->
                /\ diagnostics' = r.value
                /\ outcome' = Resolved("diagnostics")
                /\ pc' = "done"
                /\ UNCHANGED <<dq, log>>
           [] r.kind = "throw" /\ op = "captureDiagnostics" ->
                /\ outcome' = Rejected(r.error)
                /\ pc' = "done"
                /\ UNCHANGED <<dq, log, diagnostics>>
           [] r.kind = "return" /\ op = "wrapAction" ->
                /\ diagnostics' = r.value
                /\ Logged("debug", <<"Diagnostics captured">>)
                /\ outcome' = WrapActionRethrow(caught)
                /\ pc' = "done"
                /\ UNCHANGED dq
           [] r.kind = "throw" /\ op = "wrapAction" ->
                /\ Logged("warn", <<"Failed to capture diagnostics">>)
                /\ outcome' = WrapActionRethrow(caught)
                /\ pc' = "done"
                /\ UNCHANGED <<dq, diagnostics>>
    /\ UNCHANGED <<op, context, options, calls, running, caught, attempt, delay,
                   waits, now, startTime, sawTrue,
                   sawThrow, returned, holdsFrom>>
    /\ UNCHANGED outsideHandler

----------------------------------------------------------------------------
(* retryAction                                                              *)

\* maxRetries read as the number of retries after the first attempt
MaxRetriesAsRetries == OrNumber(options.maxRetries, 3) + 1
\* error-handler.ts:105-107  the options after defaulting
MaxRetries == OrNumber(options.maxRetries, 3)
InitialDelay == OrNumber(options.initialDelay, 1000)
MaxDelay == OrNumber(options.maxDelay, 10000)

\* the exponent counted from the attempt instead of from the attempt before it
BackoffFromAttemptZero(i) == Min(InitialDelay * 2 ^ i, MaxDelay)
\* error-handler.ts:127  the backoff after failing attempt i
Backoff(i) == Min(InitialDelay * 2 ^ (i - 1), MaxDelay)

\* error-handler.ts:118  `attempt === maxRetries`, with the test left out
NeverLastAttempt == FALSE
\* error-handler.ts:118  `attempt === maxRetries`: this was the last allowed attempt
IsLastAttempt == attempt = MaxRetries

\* the error built without lastError
RetryErrorWithoutOriginal ==
    TestError(<<"Action failed after ">> \o NumberToString(MaxRetries) \o <<" attempts: ">>
                \o (IF caught = NoError THEN <<"undefined">> ELSE caught.message),
              context, NoError)
\* the error built without the caller's context
RetryErrorWithoutContext ==
    TestError(<<"Action failed after ">> \o NumberToString(MaxRetries) \o <<" attempts: ">>
                \o (IF caught = NoError THEN <<"undefined">> ELSE caught.message),
              "undefined", caught)
\* error-handler.ts:138-142  the error thrown once the loop has ended
RetryError ==
    TestError(<<"Action failed after ">> \o NumberToString(MaxRetries) \o <<" attempts: ">>
                \o (IF caught = NoError THEN <<"undefined">> ELSE caught.message),
              context, caught)

\* error-handler.ts:96-109  retryAction is called
RetryActionCall ==
    /\ pc = "idle"
    /\ \E ctx \in ContextRefs : context' = ctx
    /\ \E m \in MaxRetriesInputs, i \in InitialDelayInputs, x \in MaxDelayInputs :
         options' = [NoOptions EXCEPT !.maxRetries = m, !.initialDelay = i, !.maxDelay = x]
    /\ op' = "retryAction"
    /\ attempt' = 1
    /\ pc' = "retryAction.loop"
    /\ UNCHANGED <<outcome, calls, running, caught, delay, waits, log, dq, diagnostics,
                   now, startTime, sawTrue,
                   sawThrow, returned, failedQuery, holdsFrom>>
    /\ UNCHANGED outsideHandler

\* error-handler.ts:111-114  the loop test holds: the attempt is logged and the
\* action started
RetryActionAttempt ==
    /\ pc = "retryAction.loop"
    /\ attempt <= MaxRetries
    /\ Logged("debug", <<"Attempting action (">> \o NumberToString(attempt) \o <<"/">>
                         \o NumberToString(MaxRetries) \o <<")">>)
    /\ calls' = calls + 1
    /\ running' = running + 1
    /\ pc' = "retryAction.await"
    /\ UNCHANGED <<op, context, options, outcome, caught, attempt, delay, waits, dq,
                   diagnostics, now, startTime, sawTrue,
                   sawThrow, returned, failedQuery, holdsFrom>>
    /\ UNCHANGED outsideHandler

\* error-handler.ts:114-133  the action settles: its value is returned, or the
\* catch block records the error and either breaks or computes the backoff
RetryActionSettle ==
    /\ pc = "retryAction.await"
    /\ running' = running - 1
    /\ \/ /\ \E v \in ActionValues : returned' = v /\ outcome' = ReturnValue(v)
          /\ pc' = "done"
          /\ UNCHANGED <<caught, delay, log>>
       \/ /\ \E e \in ActionErrors(calls) : caught' = e
          /\ IF IsLastAttempt
             THEN /\ Logged("error", <<"Max retries reached">>)
                  /\ pc' = "retryAction.throw"
                  /\ UNCHANGED delay
             ELSE /\ delay' = Backoff(attempt)
                  /\ Logged("warn", <<"Action failed, retrying in ">>
                                      \o NumberToString(Backoff(attempt)) \o <<"ms">>)
                  /\ pc' = "retryAction.wait"
          /\ UNCHANGED <<outcome, returned>>
    /\ UNCHANGED <<op, context, options, calls, attempt, waits, dq, diagnostics, now,
                   startTime, sawTrue,
                   sawThrow, failedQuery, holdsFrom>>
    /\ UNCHANGED outsideHandler

\* `this.page.waitForTimeout(delay)` without its await: the loop goes on at once
RetryActionWaitNotAwaited ==
    /\ pc = "retryAction.wait"
    /\ attempt' = attempt + 1
    /\ pc' = "retryAction.loop"
    /\ UNCHANGED <<op, context, options, outcome, calls, running, caught, delay, waits,
                   log, dq, diagnostics, now, startTime, sawTrue, sawThrow, returned,
                   failedQuery, holdsFrom>>
    /\ UNCHANGED outsideHandler

\* error-handler.ts:134  `await this.page.waitForTimeout(delay)` inside the catch
\* block: it completes and the loop goes on, or it rejects (the page was closed)
\* and the rejection leaves retryAction
RetryActionWait ==
    /\ pc = "retryAction.wait"
    /\ \E ok \in BOOLEAN :
         IF ok
         THEN /\ waits' = Append(waits, delay)
              /\ now' = now + delay
              /\ attempt' = attempt + 1
              /\ pc' = "retryAction.loop"
              /\ UNCHANGED <<outcome, failedQuery>>
         ELSE /\ outcome' = Rejected(PageError("waitForTimeout"))
              /\ failedQuery' = "waitForTimeout"
              /\ pc' = "done"
              /\ UNCHANGED <<waits, now, attempt>>
    /\ UNCHANGED <<op, context, options, calls, running, caught, delay, log, dq,
                   diagnostics, startTime, sawTrue,
                   sawThrow, returned, holdsFrom>>
    /\ UNCHANGED outsideHandler

\* the throw reached only through the break, not when the loop test fails
RetryActionThrowOnlyAfterBreak ==
    /\ pc = "retryAction.throw"
    /\ outcome' = Rejected(RetryError)
    /\ pc' = "done"
    /\ UNCHANGED <<op, context, options, calls, running, caught, attempt, delay, waits,
                   log, dq, diagnostics, now, startTime, sawTrue,
                   sawThrow, returned, failedQuery, holdsFrom>>
    /\ UNCHANGED outsideHandler

\* error-handler.ts:138-142  after the break, or once the loop test fails
RetryActionThrow ==
    /\ \/ pc = "retryAction.throw"
       \/ pc = "retryAction.loop" /\ ~(attempt <= MaxRetries)
    /\ outcome' = Rejected(RetryError)
    /\ pc' = "done"
    /\ UNCHANGED <<op, context, options, calls, running, caught, attempt, delay, waits,
                   log, dq, diagnostics, now, startTime, sawTrue,
                   sawThrow, returned, failedQuery, holdsFrom>>
    /\ UNCHANGED outsideHandler

----------------------------------------------------------------------------
(* waitForCondition                                                         *)

\* error-handler.ts:178-180  the options after defaulting
Timeout == OrNumber(options.timeout, 30000)
Interval == OrNumber(options.interval, 500)
ErrorMessage == OrString(options.errorMessage, "Condition not met within timeout")

\* error-handler.ts:196  the error thrown once the window has elapsed
TimeoutError == TestError(<<ErrorMessage>>, context, NoError)

\* error-handler.ts:169-182  waitForCondition is called
WaitForConditionCall ==
    /\ pc = "idle"
    /\ \E ctx \in ContextRefs : context' = ctx
    /\ \E t \in TimingInputs, m \in ErrorMessageInputs :
         options' = [NoOptions EXCEPT !.timeout = t[1], !.interval = t[2], !.errorMessage = m]
    /\ \E h \in HoldsFromInputs : holdsFrom' = h
    /\ op' = "waitForCondition"
    /\ startTime' = now
    /\ \E tick \in ClockTicks : now' = now + tick
    /\ pc' = "waitForCondition.loop"
    /\ UNCHANGED <<outcome, calls, running, caught, attempt, delay, waits, log, dq,
                   diagnostics, sawTrue,
                   sawThrow, returned, failedQuery>>
    /\ UNCHANGED outsideHandler

\* error-handler.ts:184-186  the window is open: the predicate is started
WaitForConditionEvaluate ==
    /\ pc = "waitForCondition.loop"
    /\ now - startTime < Timeout
    /\ calls' = calls + 1
    /\ running' = running + 1
    /\ pc' = "waitForCondition.await"
    /\ UNCHANGED <<op, context, options, outcome, caught, attempt, delay, waits, log,
                   dq, diagnostics, now, startTime, sawTrue,
                   sawThrow, returned, failedQuery, holdsFrom>>
    /\ UNCHANGED outsideHandler

\* what the predicate can answer when its evaluation starts at `from` and
\* settles at `to`: anything for an arbitrary predicate; otherwise true once it
\* holds at the start, false or an exception while it does not hold at the end
PredicateResults(from, to) ==
    IF holdsFrom = Undefined THEN {"true", "false", "throw"}
    ELSE IF from >= ValueOf(holdsFrom) THEN {"true"}
    ELSE IF to >= ValueOf(holdsFrom) THEN {"true", "false", "throw"}
    ELSE {"false", "throw"}

\* what the predicate rejects with on its n-th evaluation when it throws
PredicateError(n) ==
    ErrorObj(<<"condition.Error">> \o NumberToString(n), "Error", <<"element detached">>,
             "undefined", NoId)

\* a catch block that lets the predicate's exception leave the call
AfterEvaluationRethrows(result) ==
    IF result = "true" THEN "return" ELSE IF result = "throw" THEN "rethrow" ELSE "sleep"
\* a loop body whose `return` is missing
AfterEvaluationKeepsPolling(result) == "sleep"
\* error-handler.ts:186-191  what one settled evaluation leads to: "return" when
\* it resolved true, "sleep" when it resolved false or threw
AfterEvaluation(result) == IF result = "true" THEN "return" ELSE "sleep"

\* the predicate settles after some time: true, false or an exception
WaitForConditionSettle ==
    /\ pc = "waitForCondition.await"
    /\ running' = running - 1
    /\ \E d \in EvalDurations :
         /\ now' = now + d
         /\ \E result \in PredicateResults(now, now + d) :
              /\ sawTrue' = (sawTrue \/ result = "true")
              /\ sawThrow' = (sawThrow \/ result = "throw")
              /\ CASE AfterEvaluation(result) = "return" ->
                        /\ outcome' = Resolved("undefined")
                        /\ pc' = "done"
                   [] AfterEvaluation(result) = "sleep" ->
                        /\ pc' = "waitForCondition.sleep"
                        /\ UNCHANGED outcome
                   [] OTHER ->
                        /\ outcome' = Rejected(PredicateError(calls))
                        /\ pc' = "done"
    /\ UNCHANGED <<op, context, options, calls, caught, attempt, delay, waits, log, dq,
                   diagnostics, startTime,
                   returned, failedQuery, holdsFrom>>
    /\ UNCHANGED outsideHandler

\* error-handler.ts:193  `await this.page.waitForTimeout(interval)`: it completes
\* after the interval, or it rejects and the rejection leaves waitForCondition
WaitForConditionSleep ==
    /\ pc = "waitForCondition.sleep"
    /\ \E ok \in BOOLEAN :
         IF ok
         THEN /\ waits' = Append(waits, Interval)
              /\ now' = now + Interval
              /\ pc' = "waitForCondition.loop"
              /\ UNCHANGED <<outcome, failedQuery>>
         ELSE /\ outcome' = Rejected(PageError("waitForTimeout"))
              /\ failedQuery' = "waitForTimeout"
              /\ pc' = "done"
              /\ UNCHANGED <<waits, now>>
    /\ UNCHANGED <<op, context, options, calls, running, caught, attempt, delay, log,
                   dq, diagnostics, startTime, sawTrue,
                   sawThrow, returned, holdsFrom>>
    /\ UNCHANGED outsideHandler

\* the loop test comparing against timeout - 1
WaitForConditionTimeoutOffByOne ==
    /\ pc = "waitForCondition.loop"
    /\ ~(now - startTime < Timeout - 1)
    /\ outcome' = Rejected(TimeoutError)
    /\ pc' = "done"
    /\ UNCHANGED <<op, context, options, calls, running, caught, attempt, delay, waits,
                   log, dq, diagnostics, now, startTime, sawTrue,
                   sawThrow, returned, failedQuery, holdsFrom>>
    /\ UNCHANGED outsideHandler

\* error-handler.ts:184,196  the window has elapsed
WaitForConditionTimeout ==
    /\ pc = "waitForCondition.loop"
    /\ ~(now - startTime < Timeout)
    /\ outcome' = Rejected(TimeoutError)
    /\ pc' = "done"
    /\ UNCHANGED <<op, context, options, calls, running, caught, attempt, delay, waits,
                   log, dq, diagnostics, now, startTime, sawTrue,
                   sawThrow, returned, failedQuery, holdsFrom>>
    /\ UNCHANGED outsideHandler

----------------------------------------------------------------------------
(* assertCondition                                                          *)

\* the errorMessage argument of assertCondition; it is kept in
\* options.errorMessage and used as passed, without defaulting
AssertMessageInputs == {"", "Cart should be empty", "Element never appeared"}
AssertMessage == ValueOf(options.errorMessage)

\* error-handler.ts:156  the error thrown inside the try block on a false result
AssertionFailed == TestError(<<AssertMessage>>, context, NoError)

\* a catch block that rethrows whatever it caught
AssertCatchRethrowsAll(error) == error
\* a catch block that wraps whatever it caught, TestErrors included
AssertCatchWrapsAll(error) == TestError(<<AssertMessage>>, context, error)
\* error-handler.ts:158-163  the catch block: a TestError is rethrown, anything
\* else is wrapped
AssertCatch(error) ==
    IF error.name = "TestError" THEN error ELSE TestError(<<AssertMessage>>, context, error)

\* error-handler.ts:148-154  assertCondition is called and starts the condition
AssertConditionCall ==
    /\ pc = "idle"
    /\ \E ctx \in ContextRefs : context' = ctx
    /\ \E m \in AssertMessageInputs : options' = [NoOptions EXCEPT !.errorMessage = Some(m)]
    /\ op' = "assertCondition"
    /\ calls' = calls + 1
    /\ running' = running + 1
    /\ pc' = "assertCondition.await"
    /\ UNCHANGED <<outcome, caught, attempt, delay, waits, log, dq, diagnostics, now,
                   startTime, sawTrue, sawThrow, returned, failedQuery, holdsFrom>>
    /\ UNCHANGED outsideHandler

\* error-handler.ts:154-157  the condition settles: true ends the call, false
\* throws inside the try block, an exception of the condition enters the catch
AssertConditionSettle ==
    /\ pc = "assertCondition.await"
    /\ running' = running - 1
    /\ \E d \in EvalDurations : now' = now + d
    /\ \/ /\ sawTrue' = TRUE
          /\ outcome' = Resolved("undefined")
          /\ pc' = "done"
          /\ UNCHANGED <<caught, sawThrow>>
       \/ /\ caught' = AssertionFailed
          /\ pc' = "assertCondition.catch"
          /\ UNCHANGED <<outcome, sawTrue, sawThrow>>
       \/ /\ \E e \in ActionErrors(calls) : caught' = e
          /\ sawThrow' = TRUE
          /\ pc' = "assertCondition.catch"
          /\ UNCHANGED <<outcome, sawTrue>>
    /\ UNCHANGED <<op, context, options, calls, attempt, delay, waits, log, dq,
                   diagnostics, startTime, returned, failedQuery, holdsFrom>>
    /\ UNCHANGED outsideHandler

\* error-handler.ts:158-163  the catch block throws out of assertCondition
AssertConditionCatch ==
    /\ pc = "assertCondition.catch"
    /\ outcome' = Rejected(AssertCatch(caught))
    /\ pc' = "done"
    /\ UNCHANGED <<op, context, options, calls, running, caught, attempt, delay, waits,
                   log, dq, diagnostics, now, startTime, sawTrue, sawThrow, returned,
                   failedQuery, holdsFrom>>
    /\ UNCHANGED outsideHandler

----------------------------------------------------------------------------
Next ==
    \/ WrapActionCall
    \/ WrapActionSettle
    \/ HandleError
    \/ CaptureDiagnosticsCall
    \/ CaptureDiagnostics
    \/ RetryActionCall
    \/ RetryActionAttempt
    \/ RetryActionSettle
    \/ RetryActionWait
    \/ RetryActionThrow
    \/ AssertConditionCall
    \/ AssertConditionSettle
    \/ AssertConditionCatch
    \/ WaitForConditionCall
    \/ WaitForConditionEvaluate
    \/ WaitForConditionSettle
    \/ WaitForConditionSleep
    \/ WaitForConditionTimeout

Spec == Init /\ [][Next]_vars

\* the calls of one component alone
NextExecutor ==
    \/ WrapActionCall
    \/ WrapActionSettle
    \/ HandleError
    \/ CaptureDiagnosticsCall
    \/ CaptureDiagnostics
SpecExecutor == Init /\ [][NextExecutor]_vars

NextRetry ==
    \/ RetryActionCall
    \/ RetryActionAttempt
    \/ RetryActionSettle
    \/ RetryActionWait
    \/ RetryActionThrow
SpecRetry == Init /\ [][NextRetry]_vars
\* the retry controller when every promise it awaits settles and the event
\* loop keeps running its continuations
SpecRetryFair ==
    /\ SpecRetry
    /\ WF_vars(RetryActionAttempt)
    /\ WF_vars(RetryActionSettle)
    /\ WF_vars(RetryActionWait)
    /\ WF_vars(RetryActionThrow)

NextPoller ==
    \/ WaitForConditionCall
    \/ WaitForConditionEvaluate
    \/ WaitForConditionSettle
    \/ WaitForConditionSleep
    \/ WaitForConditionTimeout
SpecPoller == Init /\ [][NextPoller]_vars

NextAsserter ==
    \/ AssertConditionCall
    \/ AssertConditionSettle
    \/ AssertConditionCatch
SpecAsserter == Init /\ [][NextAsserter]_vars

----------------------------------------------------------------------------
(* tests/support/hooks.ts: the BeforeAll / Before / After / AfterAll hooks.  *)
(* The runner awaits one hook at a time and runs After for every scenario   *)
(* whose Before it ran, whether Before failed or not.                       *)

\* hooks.ts:25  `!browser`
BrowserMissing == browser = "undefined"

\* After without its `if (context)` block
AfterNeverCloses == FALSE
\* hooks.ts:52  `if (context)`
AfterCloses == hookContext # 0

\* a catch block that rethrows after logging
AfterCatchRethrows == "reject"
\* hooks.ts:55-57  the catch block of After logs and swallows the error
AfterCatch == "resolve"

\* hooks.ts:57-59  the finally block of After: `context = undefined`
AfterFinally(ctx) == 0

\* hooks.ts:69-72  the catch block of AfterAll logs and does not rethrow
AfterAllCatch == "resolve"

\* hooks.ts:10-12  BeforeAll starts: nothing to do when a browser is there
BeforeAllCall ==
    /\ hook = "idle"
    /\ IF browser # "undefined"
       THEN /\ hookResult' = HookResult("BeforeAll", "resolve", "none")
            /\ UNCHANGED hook
       ELSE /\ hook' = "BeforeAll.launch"
            /\ UNCHANGED hookResult
    /\ UNCHANGED <<browser, browserAlive, hookContext, openContexts, abandoned, created,
                   scenarioCount>>
    /\ UNCHANGED outsideHooks

\* hooks.ts:13-21  chromium.launch settles; its error is logged and rethrown
BeforeAllLaunch ==
    /\ hook = "BeforeAll.launch"
    /\ \/ /\ browser' = "set"
          /\ browserAlive' = TRUE
          /\ hookResult' = HookResult("BeforeAll", "resolve", "none")
       \/ /\ hookResult' = HookResult("BeforeAll", "reject", "chromium.launch")
          /\ UNCHANGED <<browser, browserAlive>>
    /\ hook' = "idle"
    /\ UNCHANGED <<hookContext, openContexts, abandoned, created, scenarioCount>>
    /\ UNCHANGED outsideHooks

\* hooks.ts:24-31  Before starts for the next scenario: it throws when there
\* is no browser, otherwise it asks the browser for a context
BeforeCall ==
    /\ hook = "idle"
    /\ scenarioCount < MaxScenarios
    /\ scenarioCount' = scenarioCount + 1
    /\ IF BrowserMissing
       THEN /\ hookResult' = HookResult("Before", "reject", "Browser is not initialized")
            /\ hook' = "scenario"
       ELSE /\ hook' = "Before.newContext"
            /\ UNCHANGED hookResult
    /\ UNCHANGED <<browser, browserAlive, hookContext, openContexts, abandoned, created>>
    /\ UNCHANGED outsideHooks

\* hooks.ts:31-36,43-46  browser.newContext settles: the new context is stored
\* in `context`, or the error is logged and rethrown
BeforeNewContext ==
    /\ hook = "Before.newContext"
    /\ \/ /\ browserAlive
          /\ created' = created + 1
          /\ hookContext' = created + 1
          /\ openContexts' = openContexts \cup {created + 1}
          /\ hook' = "Before.newPage"
          /\ UNCHANGED hookResult
       \/ /\ hookResult' = HookResult("Before", "reject", "browser.newContext")
          /\ hook' = "scenario"
          /\ UNCHANGED <<created, hookContext, openContexts>>
    /\ UNCHANGED <<browser, browserAlive, abandoned, scenarioCount>>
    /\ UNCHANGED outsideHooks

\* hooks.ts:38-39,43-46  context.newPage settles
BeforeNewPage ==
    /\ hook = "Before.newPage"
    /\ \/ /\ hook' = "Before.initialize"
          /\ UNCHANGED hookResult
       \/ /\ hookResult' = HookResult("Before", "reject", "context.newPage")
          /\ hook' = "scenario"
    /\ UNCHANGED <<browser, browserAlive, hookContext, openContexts, abandoned, created,
                   scenarioCount>>
    /\ UNCHANGED outsideHooks

\* hooks.ts:42-46  this.initialize settles and Before ends
BeforeInitialize ==
    /\ hook = "Before.initialize"
    /\ \/ hookResult' = HookResult("Before", "resolve", "none")
       \/ hookResult' = HookResult("Before", "reject", "world.initialize")
    /\ hook' = "scenario"
    /\ UNCHANGED <<browser, browserAlive, hookContext, openContexts, abandoned, created,
                   scenarioCount>>
    /\ UNCHANGED outsideHooks

\* hooks.ts:49-60  After starts: with a context it closes it, without one only
\* the finally block runs
AfterCall ==
    /\ hook = "scenario"
    /\ IF AfterCloses
       THEN /\ hook' = "After.close"
            /\ UNCHANGED <<hookContext, hookResult>>
       ELSE /\ hookContext' = AfterFinally(hookContext)
            /\ hookResult' = HookResult("After", "resolve", "none")
            /\ hook' = "idle"
    /\ UNCHANGED <<browser, browserAlive, openContexts, abandoned, created, scenarioCount>>
    /\ UNCHANGED outsideHooks

\* hooks.ts:53-59  context.close() settles. When it rejects the context may or
\* may not have been closed; the catch block logs, the finally block clears
\* `context`
AfterClose ==
    /\ hook = "After.close"
    /\ \/ /\ openContexts' = openContexts \ {hookContext}
          /\ hookResult' = HookResult("After", "resolve", "none")
          /\ UNCHANGED abandoned
       \/ /\ \E stillOpen \in BOOLEAN :
               openContexts' = IF stillOpen THEN openContexts
                               ELSE openContexts \ {hookContext}
          /\ abandoned' = abandoned \cup {hookContext}
          /\ hookResult' = HookResult("After", AfterCatch, "context.close")
    /\ hookContext' = AfterFinally(hookContext)
    /\ hook' = "idle"
    /\ UNCHANGED <<browser, browserAlive, created, scenarioCount>>
    /\ UNCHANGED outsideHooks

\* hooks.ts:62-65  AfterAll starts
AfterAllCall ==
    /\ hook = "idle"
    /\ IF browser # "undefined"
       THEN /\ hook' = "AfterAll.close"
            /\ UNCHANGED hookResult
       ELSE /\ hookResult' = HookResult("AfterAll", "resolve", "none")
            /\ UNCHANGED hook
    /\ UNCHANGED <<browser, browserAlive, hookContext, openContexts, abandoned, created,
                   scenarioCount>>
    /\ UNCHANGED outsideHooks

\* hooks.ts:66-72  browser.close() settles: `browser` is cleared after a
\* successful close only; a close that rejects may or may not have ended the
\* browser, and a browser that has ended has no open context
AfterAllClose ==
    /\ hook = "AfterAll.close"
    /\ \/ /\ browser' = "undefined"
          /\ browserAlive' = FALSE
          /\ openContexts' = {}
          /\ hookResult' = HookResult("AfterAll", "resolve", "none")
       \/ /\ \E alive \in {browserAlive, FALSE} :
               /\ browserAlive' = alive
               /\ openContexts' = IF alive THEN openContexts ELSE {}
          /\ hookResult' = HookResult("AfterAll", AfterAllCatch, "browser.close")
          /\ UNCHANGED browser
    /\ hook' = "idle"
    /\ UNCHANGED <<hookContext, abandoned, created, scenarioCount>>
    /\ UNCHANGED outsideHooks

NextHooks ==
    \/ BeforeAllCall
    \/ BeforeAllLaunch
    \/ BeforeCall
    \/ BeforeNewContext
    \/ BeforeNewPage
    \/ BeforeInitialize
    \/ AfterCall
    \/ AfterClose
    \/ AfterAllCall
    \/ AfterAllClose
SpecHooks == Init /\ [][NextHooks]_vars

----------------------------------------------------------------------------
(* The hooks with artifact capture: Before and After of one scenario.       *)
(* A hook is the sequence of the calls it awaits; each call resolves or     *)
(* throws.                                                                  *)

\* the optional part of a plan
Optional(enabled, steps) == IF enabled THEN steps ELSE <<>>

\* Before, lines 539-609: the calls it awaits, in order
BeforePlan ==
    <<"browser.newContext">> \o Optional(cfgOptions.trace, <<"tracing.start">>)
        \o <<"context.newPage", "world.initialize">>
        \o Optional(cfgOptions.ui, <<"page.goto">>)

\* After, lines 624-692: the calls it awaits, in order
AfterPlan ==
    (IF status = "FAILED"
     THEN Optional(cfgOptions.screenshot, <<"page.screenshot">>)
            \o <<"page.content", "page.evaluate">>
            \o Optional(cfgOptions.trace, <<"tracing.stop">>)
     ELSE IF status = "PASSED"
     THEN Optional(cfgOptions.trace, <<"tracing.stop">>)
     ELSE <<>>)
        \o <<"world.cleanup", "context.close">>

\* the calls of After that dereference this.page
NeedsPage(step) == step # "world.cleanup"

\* Before starts for a scenario, under some configuration
ConfiguredBeforeCall ==
    /\ cfgHook = "idle"
    /\ \E sc \in BOOLEAN, tr \in BOOLEAN, ui \in BOOLEAN :
         cfgOptions' = [screenshot |-> sc, trace |-> tr, ui |-> ui]
    /\ cfgHook' = "Before"
    /\ cfgStep' = 1
    /\ UNCHANGED <<cfgContext, worldPage, status, failedStep, cfgResult>>
    /\ UNCHANGED outsideCfg

\* one awaited call of Before settles. newContext creates the context;
\* initialize stores the page in the World before anything of it can throw;
\* an exception is logged and rethrown (lines 611-614)
ConfiguredBeforeStep ==
    /\ cfgHook = "Before"
    /\ LET step == BeforePlan[cfgStep] IN
       /\ worldPage' = (worldPage \/ step = "world.initialize")
       /\ \/ /\ cfgContext' = IF step = "browser.newContext" THEN "open" ELSE cfgContext
             /\ IF cfgStep = Len(BeforePlan)
                THEN cfgHook' = "scenario" /\ cfgStep' = 0
                ELSE cfgHook' = "Before" /\ cfgStep' = cfgStep + 1
             /\ UNCHANGED failedStep
          \/ /\ failedStep' = step
             /\ cfgHook' = "scenario"
             /\ cfgStep' = 0
             /\ UNCHANGED cfgContext
    /\ UNCHANGED <<cfgOptions, status, cfgResult>>
    /\ UNCHANGED outsideCfg

\* the runner runs the steps (none after a failed Before) and starts After
\* with the scenario's result
ConfiguredAfterCall ==
    /\ cfgHook = "scenario"
    /\ \E st \in IF failedStep # "none" THEN {"FAILED"} ELSE {"PASSED", "FAILED", "SKIPPED"} :
         status' = st
    /\ failedStep' = "none"
    /\ cfgHook' = "After"
    /\ cfgStep' = 1
    /\ UNCHANGED <<cfgOptions, cfgContext, worldPage, cfgResult>>
    /\ UNCHANGED outsideCfg

\* one awaited call of After settles; the first exception, a TypeError of an
\* unset this.page included, jumps to the catch block of lines 694-696, which
\* logs it, and After ends. A close that rejects may or may not have closed
\* the context.
ConfiguredAfterStep ==
    /\ cfgHook = "After"
    /\ LET step == AfterPlan[cfgStep] IN
       \/ /\ NeedsPage(step) => worldPage
          /\ cfgContext' = IF step = "context.close" THEN "closed" ELSE cfgContext
          /\ IF cfgStep = Len(AfterPlan)
             THEN cfgHook' = "done" /\ cfgStep' = 0 /\ cfgResult' = "resolve"
             ELSE cfgHook' = "After" /\ cfgStep' = cfgStep + 1 /\ UNCHANGED cfgResult
          /\ UNCHANGED failedStep
       \/ /\ failedStep' = step
          /\ \E closed \in BOOLEAN :
               cfgContext' = IF step = "context.close" /\ worldPage /\ closed
                             THEN "closed" ELSE cfgContext
          /\ cfgHook' = "done"
          /\ cfgStep' = 0
          /\ cfgResult' = "resolve"
    /\ UNCHANGED <<cfgOptions, worldPage, status>>
    /\ UNCHANGED outsideCfg

NextConfiguredHooks ==
    \/ ConfiguredBeforeCall
    \/ ConfiguredBeforeStep
    \/ ConfiguredAfterCall
    \/ ConfiguredAfterStep
SpecConfiguredHooks == Init /\ [][NextConfiguredHooks]_vars

----------------------------------------------------------------------------
(* tests/data/data-managers.ts: TestDataManager                             *)

\* data-managers.ts:38-59  loadFromFile(fileName): a cached value is returned
\* without touching the file; otherwise the file is read and parsed, the
\* value cached and returned, and a failure is logged and rethrown
LoadFromFile ==
    \E f \in FileNames :
        /\ IF dataCache[CacheKey(f)] # Absent
           THEN /\ lastCall' = Call("loadFromFile", f, "return", dataCache[CacheKey(f)],
                                    latest[f], FALSE)
                /\ UNCHANGED <<dataCache, latest>>
           ELSE \/ /\ disk[f] \notin {Missing, Garbage}
                   /\ dataCache' = [dataCache EXCEPT ![CacheKey(f)] = Parse(disk[f])]
                   /\ latest' = [latest EXCEPT ![f] = Parse(disk[f])]
                   /\ lastCall' = Call("loadFromFile", f, "return", Parse(disk[f]),
                                       latest[f], TRUE)
                \/ /\ lastCall' = Call("loadFromFile", f, "throw", Absent, latest[f], TRUE)
                   /\ UNCHANGED <<dataCache, latest>>
        /\ UNCHANGED disk
        /\ UNCHANGED outsideData

\* data-managers.ts:64-77  saveToFile(fileName, data): the file is written,
\* then the value cached; JSON.stringify or writeFileSync throwing is logged
\* and rethrown, and a failed write may leave a broken file
SaveToFile ==
    \E f \in FileNames, d \in DataValues :
        /\ \/ /\ d # "circular"
              /\ disk' = [disk EXCEPT ![f] = Stringify(d)]
              /\ dataCache' = [dataCache EXCEPT ![CacheKey(f)] = d]
              /\ latest' = [latest EXCEPT ![f] = d]
              /\ lastCall' = Call("saveToFile", f, "return", d, latest[f], FALSE)
           \/ /\ \E content \in IF d = "circular" THEN {disk[f]} ELSE {disk[f], Garbage} :
                    disk' = [disk EXCEPT ![f] = content]
              /\ lastCall' = Call("saveToFile", f, "throw", d, latest[f], FALSE)
              /\ UNCHANGED <<dataCache, latest>>
        /\ UNCHANGED outsideData

\* data-managers.ts:90-93  clearCache()
ClearCache ==
    /\ dataCache' = [k \in CacheKeys |-> Absent]
    /\ latest' = [f \in FileNames |-> Absent]
    /\ lastCall' = Call("clearCache", "none", "return", Absent, Absent, FALSE)
    /\ UNCHANGED disk
    /\ UNCHANGED outsideData

\* something other than the TestDataManager rewrites or removes a data file
FileChanges ==
    /\ \E f \in FileNames, content \in FileContents :
         /\ content # disk[f]
         /\ disk' = [disk EXCEPT ![f] = content]
    /\ UNCHANGED <<dataCache, latest, lastCall>>
    /\ UNCHANGED outsideData

NextData ==
    \/ LoadFromFile
    \/ SaveToFile
    \/ ClearCache
    \/ FileChanges
SpecData == Init /\ [][NextData]_vars

----------------------------------------------------------------------------
(* CustomReporter: the envelope listener and its handlers. The envelopes of *)
(* parallel workers arrive one at a time, in any order that starts a test   *)
(* case before it finishes it.                                              *)

\* testCaseResult.status of a testCaseFinished envelope; Undefined when the
\* envelope carries no result
StatusInputs == {Undefined, Some("PASSED"), Some("FAILED"), Some("SKIPPED"),
                 Some("PENDING"), Some("AMBIGUOUS")}
\* String.prototype.toLowerCase on the status names
ToLowerCase(str) ==
    CASE str = "PASSED" -> "passed" [] str = "FAILED" -> "failed"
      [] str = "SKIPPED" -> "skipped" [] str = "PENDING" -> "pending"
      [] str = "AMBIGUOUS" -> "ambiguous"
\* lines 245-248  getTestStatus
GetTestStatus(result) == IF result = Undefined THEN "unknown" ELSE ToLowerCase(ValueOf(result))

\* lines 200-213  the switch on the status
UpdateStats(st, result) ==
    CASE result = "passed" -> [st EXCEPT !.passed = @ + 1]
      [] result = "failed" -> [st EXCEPT !.failed = @ + 1]
      [] result = "skipped" -> [st EXCEPT !.skipped = @ + 1]
      [] result = "pending" -> [st EXCEPT !.pending = @ + 1]
      [] OTHER -> st

\* lines 159-160, 180-191  a testCaseStarted envelope arrives
HandleTestCaseStarted ==
    /\ startedCases < MaxTestCases
    /\ startedCases' = startedCases + 1
    /\ inFlight' = inFlight \cup {startedCases + 1}
    /\ stats' = [stats EXCEPT !.total = @ + 1]
    /\ currentScenario' = Some(<<"Scenario ">> \o NumberToString(stats.total + 1))
    /\ UNCHANGED scenarios
    /\ UNCHANGED outsideReporter

\* lines 161-162, 193-226  the testCaseFinished envelope of a started test
\* case arrives
HandleTestCaseFinished ==
    /\ \E id \in inFlight, result \in StatusInputs :
         /\ inFlight' = inFlight \ {id}
         /\ IF currentScenario = Undefined
            THEN UNCHANGED <<stats, scenarios, currentScenario>>
            ELSE /\ stats' = UpdateStats(stats, GetTestStatus(result))
                 /\ scenarios' = Append(scenarios, [name |-> ValueOf(currentScenario),
                                                    status |-> GetTestStatus(result)])
                 /\ currentScenario' = Undefined
    /\ UNCHANGED startedCases
    /\ UNCHANGED outsideReporter

NextReporter ==
    \/ HandleTestCaseStarted
    \/ HandleTestCaseFinished
SpecReporter == Init /\ [][NextReporter]_vars

----------------------------------------------------------------------------
(* NetworkHelper: startCapturingLogs / stopCapturingLogs and the listeners  *)
(* they register. The page emits one event at a time; every registered      *)
(* listener runs on it, in the order of registration.                       *)

\* lines 40-46  the entry a 'request' listener pushes. `request` and
\* `responder` record which request created the entry and whose response
\* filled it in
LogEntry(id, url) ==
    [url |-> url, request |-> id, status |-> Undefined, duration |-> Undefined,
     responder |-> 0]

\* lines 36-47  the 'request' listeners run: each pushes an entry
RECURSIVE OnRequest(_, _, _, _)
OnRequest(logs, id, url, k) ==
    IF k = 0 THEN logs ELSE OnRequest(Append(logs, LogEntry(id, url)), id, url, k - 1)

\* lines 55-57  findIndex: the first entry of that URL without a status, 0
\* when there is none
FindIndex(logs, url) ==
    LET found == {i \in 1..Len(logs) : logs[i].url = url /\ logs[i].status = Undefined}
    IN IF found = {} THEN 0 ELSE CHOOSE i \in found : \A j \in found : i <= j

\* lines 50-70  the 'response' listeners run, one after the other: each takes
\* the time stored for the URL (or now), fills in the entry it finds and
\* deletes the stored time
RECURSIVE OnResponse(_, _, _, _, _, _)
OnResponse(logs, times, id, url, code, k) ==
    IF k = 0 THEN [logs |-> logs, times |-> times]
    ELSE LET requestTime == IF times[url] = 0 THEN netClock ELSE times[url]
             logIndex == FindIndex(logs, url)
             filled == IF logIndex = 0 THEN logs
                       ELSE [logs EXCEPT ![logIndex] =
                               [@ EXCEPT !.status = Some(code),
                                         !.duration = Some(netClock - requestTime),
                                         !.responder = id]]
         IN OnResponse(filled, [times EXCEPT ![url] = 0], id, url, code, k - 1)

\* lines 32-73  startCapturingLogs registers one more pair of listeners
StartCapturingLogs ==
    /\ listeners < MaxListeners
    /\ listeners' = listeners + 1
    /\ UNCHANGED <<networkLogs, requestTimestamps, requestsInFlight, requestCount,
                   captured, netClock>>
    /\ UNCHANGED outsideNetwork

\* lines 78-82  stopCapturingLogs removes every listener
StopCapturingLogs ==
    /\ listeners > 0
    /\ listeners' = 0
    /\ UNCHANGED <<networkLogs, requestTimestamps, requestsInFlight, requestCount,
                   captured, netClock>>
    /\ UNCHANGED outsideNetwork

\* the page sends a request and emits 'request'
RequestEvent ==
    /\ requestCount < MaxRequests
    /\ \E url \in Urls :
         /\ requestsInFlight' = requestsInFlight \cup {<<requestCount + 1, url>>}
         /\ networkLogs' = OnRequest(networkLogs, requestCount + 1, url, listeners)
         /\ requestTimestamps' = IF listeners = 0 THEN requestTimestamps
                                 ELSE [requestTimestamps EXCEPT ![url] = netClock]
    /\ requestCount' = requestCount + 1
    /\ captured' = IF listeners = 0 THEN captured ELSE captured \cup {requestCount + 1}
    /\ netClock' = netClock + 1
    /\ UNCHANGED listeners
    /\ UNCHANGED outsideNetwork

\* the response of a request in flight arrives and the page emits 'response'
ResponseEvent ==
    /\ \E r \in requestsInFlight, code \in StatusCodes :
         LET after == OnResponse(networkLogs, requestTimestamps, r[1], r[2], code, listeners)
         IN /\ networkLogs' = after.logs
            /\ requestTimestamps' = after.times
            /\ requestsInFlight' = requestsInFlight \ {r}
    /\ UNCHANGED <<listeners, requestCount, captured, netClock>>
    /\ UNCHANGED outsideNetwork

NextNetwork ==
    \/ StartCapturingLogs
    \/ StopCapturingLogs
    \/ RequestEvent
    \/ ResponseEvent
SpecNetwork == Init /\ [][NextNetwork]_vars

----------------------------------------------------------------------------
(* Properties                                                               *)

\* the call of method m has settled
Settled(m) == op = m /\ pc = "done"
\* an option as the caller means it: its value, or the default when omitted
Supplied(opt, default) == IF opt = Undefined THEN default ELSE ValueOf(opt)
\* s starts with the sequence prefix
StartsWith(s, prefix) ==
    Len(s) >= Len(prefix) /\ SubSeq(s, 1, Len(prefix)) = prefix

\* C1: whenever the wrapped action rejected with E, wrapAction rejects with E
\* itself and never resolves.
C1_RejectsWithOriginal ==
    (Settled("wrapAction") /\ caught # NoError) => outcome = Rejected(caught)

\* C2: when the action rejected with E and a page query failed while the failure
\* was handled (page.url() in handleError, or a query of captureDiagnostics), the
\* error wrapAction rejects with is still E.
C2_QueryFailureNeverMasks ==
    (Settled("wrapAction") /\ caught # NoError /\ failedQuery # "none")
        => (outcome.kind = "reject" /\ outcome.error.id = caught.id)

\* C3: captureDiagnostics never rejects: whatever query throws, it returns the
\* full snapshot or an object {error: string}, to a client and to handleError.
C3_CaptureNeverRejects ==
    /\ Settled("captureDiagnostics") =>
         /\ outcome = Resolved("diagnostics")
         /\ \/ /\ diagnostics.shape = "snapshot"
               /\ diagnostics.keys = {"url", "title", "viewport", "cookies", "localStorage",
                                      "sessionStorage", "userAgent", "timestamp"}
               /\ failedQuery = "none"
            \/ /\ diagnostics.shape = "error"
               /\ diagnostics.keys = {"error"}
               /\ diagnostics.error # ""
               /\ failedQuery # "none"
    /\ (Settled("wrapAction") /\ failedQuery \notin {"none", "handleError.url"}) =>
         diagnostics.shape = "error"
C3_Witness ==
    Settled("captureDiagnostics") /\ failedQuery = "cookies" /\ diagnostics.shape = "error"

\* C4: with maxRetries = N (N >= 1, or N = 3 when omitted) the action is invoked
\* at most N times, and when all N invocations rejected the call rejects with a
\* TestError whose message reports N attempts.
C4_RetryBound ==
    LET N == Supplied(options.maxRetries, 3) IN
    (op = "retryAction" /\ N >= 1) =>
        /\ calls <= N
        /\ (pc = "done" /\ calls = N /\ returned = "none") =>
             /\ outcome.kind = "reject"
             /\ outcome.error.name = "TestError"
             /\ StartsWith(outcome.error.message,
                           <<"Action failed after ">> \o NumberToString(N) \o <<" attempts: ">>)
C4_Witness ==
    /\ Settled("retryAction")
    /\ options.maxRetries = Some(2)
    /\ calls = 2
    /\ outcome.kind = "reject"

\* C5: when the action first succeeds on attempt k, it was invoked exactly k
\* times, the call has resolved with that attempt's value, k - 1 backoff waits
\* were made and nothing is running or waiting after the success.
C5_RetryShortCircuit ==
    (op = "retryAction" /\ returned # "none") =>
        /\ pc = "done"
        /\ outcome = Resolved(returned)
        /\ calls = attempt
        /\ Len(waits) = attempt - 1
        /\ running = 0
C5_Witness ==
    op = "retryAction" /\ returned = "v2" /\ calls = 2 /\ options.maxRetries = Some(4)

\* C6: the i-th backoff wait is min(initialDelay * 2^(i-1), maxDelay), with the
\* options' values, 1000 and 10000 standing in only for omitted ones.
C6_BackoffOfSuppliedOptions ==
    op = "retryAction" =>
        \A i \in 1..Len(waits) :
            waits[i] = Min(Supplied(options.initialDelay, 1000) * 2 ^ (i - 1),
                           Supplied(options.maxDelay, 10000))

\* C7: once the predicate has resolved true the call has resolved: no wait and
\* no evaluation follows, however much of the window is left.
C7_ResolvesOnFirstTrue ==
    (op = "waitForCondition" /\ sawTrue) =>
        /\ pc = "done"
        /\ outcome = Resolved("undefined")
        /\ running = 0
        /\ Len(waits) = calls - 1
C7_Witness ==
    /\ op = "waitForCondition"
    /\ sawTrue
    /\ calls = 2
    /\ Timeout - (now - startTime) > 20000

\* C8: when the window elapsed with no evaluation resolving true, the call
\* rejects with a TestError whose message is options.errorMessage (the default
\* only when none is given), whose context is options.context and which has no
\* originalError.
C8_TimeoutErrorOfSuppliedMessage ==
    (Settled("waitForCondition") /\ ~sawTrue /\ failedQuery = "none") =>
        outcome = Rejected(ErrorObj(<<"new TestError">>, "TestError",
                                    <<Supplied(options.errorMessage,
                                               "Condition not met within timeout")>>,
                                    context, NoId))

C11_RetryRejectsOnlyWithTestError ==
    (Settled("retryAction") /\ outcome.kind = "reject") => outcome.error.name = "TestError"

\* C12: when the attempts are exhausted, the TestError's originalError is the
\* error of the last invocation (its identity names that invocation), and the
\* message is 'Action failed after N attempts: ' followed by that error's message.
C12_LastErrorAttached ==
    (Settled("retryAction") /\ outcome.kind = "reject" /\ failedQuery = "none" /\ calls >= 1) =>
        /\ outcome.error.originalError = caught.id
        /\ caught \in ActionErrors(calls)
        /\ outcome.error.message =
             <<"Action failed after ">> \o NumberToString(MaxRetries) \o <<" attempts: ">>
               \o caught.message
C12_Witness ==
    /\ Settled("retryAction")
    /\ calls = 3
    /\ outcome.error.name = "TestError"
    /\ outcome.error.originalError = <<"action.Timeout", "3">>
    /\ outcome.error.message = <<"Action failed after ", "3", " attempts: ", "timeout">>

\* C13 (as stated): with maxRetries >= 2 the wait between the first failing
\* attempt and the second attempt is the supplied initialDelay, whatever
\* initialDelay and maxDelay the caller supplies.
C13_FirstWaitIsInitialDelay ==
    (op = "retryAction" /\ Supplied(options.maxRetries, 3) >= 2
       /\ options.initialDelay # Undefined /\ Len(waits) >= 1)
        => waits[1] = ValueOf(options.initialDelay)
\* C13 (amended): the first wait is min(initialDelay, maxDelay), the values
\* being those after defaulting, where a supplied 0 counts as omitted.
C13_FirstWaitIsCapped ==
    LET AfterDefaulting(opt, default) ==
            IF opt = Undefined \/ opt = Some(0) THEN default ELSE ValueOf(opt)
    IN  (op = "retryAction" /\ Len(waits) >= 1) =>
            waits[1] = Min(AfterDefaulting(options.initialDelay, 1000),
                           AfterDefaulting(options.maxDelay, 10000))
C13_Witness ==
    /\ op = "retryAction"
    /\ options.initialDelay = Some(4000)
    /\ options.maxDelay = Some(1000)
    /\ waits = <<1000>>

\* C16: a call to waitForCondition ends in one of two ways only: resolved
\* because the predicate returned true, or rejected with the timeout TestError.
C16_EndsResolvedOrTimedOut ==
    Settled("waitForCondition") =>
        \/ outcome = Resolved("undefined") /\ sawTrue
        \/ /\ outcome.kind = "reject"
           /\ outcome.error.name = "TestError"
           /\ ~sawTrue
           /\ now - startTime >= Timeout

\* C17: each option the caller supplies is the value used, a supplied 0 or ''
\* included; the default is used only for an omitted option.
C17_SuppliedOptionsAreUsed ==
    /\ op = "retryAction" =>
         /\ MaxRetries = Supplied(options.maxRetries, 3)
         /\ InitialDelay = Supplied(options.initialDelay, 1000)
         /\ MaxDelay = Supplied(options.maxDelay, 10000)
    /\ op = "waitForCondition" =>
         /\ Timeout = Supplied(options.timeout, 30000)
         /\ Interval = Supplied(options.interval, 500)
         /\ ErrorMessage = Supplied(options.errorMessage, "Condition not met within timeout")

\* C18: in a call of retryAction or waitForCondition at most one invocation of
\* the action / predicate is in flight, and whenever one is in flight or a wait
\* is pending, every earlier invocation has settled and has had its wait
\* completed.
C18_StrictlySequential ==
    op \in {"retryAction", "waitForCondition"} =>
        /\ running \in {0, 1}
        /\ running = 1 <=> pc \in {"retryAction.await", "waitForCondition.await"}
        /\ pc \in {"retryAction.await", "waitForCondition.await", "retryAction.wait",
                   "waitForCondition.sleep"} => Len(waits) = calls - 1
        /\ pc \in {"retryAction.loop", "waitForCondition.loop"} => Len(waits) = calls
C18_Witness ==
    /\ op = "retryAction"
    /\ pc = "retryAction.await"
    /\ calls = 3
    /\ running = 1
    /\ Len(waits) = 2

\* C19: when all N = maxRetries attempts (N >= 1, or 3 when omitted) have
\* failed, exactly N - 1 backoff waits were made before the TestError is thrown.
C19_NoWaitAfterLastAttempt ==
    LET N == Supplied(options.maxRetries, 3) IN
    (op = "retryAction" /\ N >= 1 /\ pc \in {"retryAction.throw", "done"}
       /\ returned = "none" /\ failedQuery = "none") =>
        /\ calls = N
        /\ Len(waits) = N - 1
        /\ pc = "done" => outcome.error.name = "TestError"
C19_Witness ==
    /\ Settled("retryAction")
    /\ options.maxRetries = Some(1)
    /\ calls = 1
    /\ waits = <<>>
    /\ outcome.error.name = "TestError"

\* C20: wrapAction invokes the action exactly once, and on success returns its
\* value with no failure handling: nothing logged, no page query, nothing caught.
C20_InvokedExactlyOnce ==
    op = "wrapAction" =>
        /\ calls = 1
        /\ returned # "none" =>
             /\ pc = "done"
             /\ outcome = Resolved(returned)
             /\ caught = NoError
             /\ log = <<>>
             /\ dq = 0
             /\ diagnostics = NoDiagnostics
             /\ failedQuery = "none"
C20_Witness ==
    Settled("wrapAction") /\ returned = "v1" /\ calls = 1

C15_HoldingBeforeTimeoutResolves ==
    (Settled("waitForCondition") /\ failedQuery = "none" /\ holdsFrom # Undefined
       /\ ValueOf(holdsFrom) - startTime < Supplied(options.timeout, 30000))
        => outcome.kind = "resolve"
\* C15 (amended): when the predicate holds for good from some instant, an
\* evaluation that starts at or after that instant resolves the call; the
\* timeout error is reported only when no evaluation started that late.
C15_EvaluationAfterOnsetResolves ==
    [][(pc = "waitForCondition.await" /\ holdsFrom # Undefined /\ now >= ValueOf(holdsFrom))
         => (pc' = "done" /\ outcome' = Resolved("undefined"))]_vars
C15_Witness ==
    /\ Settled("waitForCondition")
    /\ holdsFrom = Some(600)
    /\ calls = 3
    /\ sawTrue
    /\ outcome = Resolved("undefined")

\* C21: retryAction is bounded by its attempt count only: when every
\* invocation of the action and every backoff wait settles, each call to
\* retryAction eventually resolves or rejects, whatever the options.
C21_RetryTerminates ==
    (op = "retryAction") ~> (pc = "done" /\ outcome.kind \in {"resolve", "reject"})
C21_Witness ==
    /\ Settled("retryAction")
    /\ calls = MaxRetriesBound
    /\ Len(waits) = MaxRetriesBound - 1
    /\ outcome.kind = "reject"
    /\ outcome.error.name = "TestError"

\* C24 (as stated): waitForCondition evaluates the predicate at least once
\* before it rejects with the timeout error, for every timeout and interval,
\* zero and negative values included.
C24_EvaluatesBeforeTimeout ==
    (Settled("waitForCondition") /\ outcome.kind = "reject" /\ failedQuery = "none")
        => calls >= 1
\* C24 (amended): waitForCondition rejects with the timeout error without
\* having evaluated the predicate only when the first loop test already finds
\* the window over: the time elapsed since startTime is at least the timeout
\* the caller passed (always so for a negative timeout), and nothing was slept.
C24_NoEvaluationOnlyWhenWindowOver ==
    (Settled("waitForCondition") /\ outcome.kind = "reject" /\ failedQuery = "none"
       /\ calls = 0)
        => /\ now - startTime >= Supplied(options.timeout, 30000)
           /\ options.timeout # Some(0)
           /\ waits = <<>>
           /\ ~sawThrow
C24_Witness ==
    /\ Settled("waitForCondition")
    /\ outcome = Rejected(TimeoutError)
    /\ calls = 0
    /\ options.timeout = Some(1)
    /\ now - startTime = 1

\* C25: assertCondition evaluates the condition exactly once and rejects only
\* with a TestError: a false result gives TestError(errorMessage, context)
\* without originalError, a non-TestError E thrown by the condition gives
\* TestError(errorMessage, context, E), and a true result resolves the call.
C25_AssertOutcomes ==
    /\ op = "assertCondition" => calls = 1
    /\ Settled("assertCondition") =>
         /\ running = 0
         /\ outcome.kind = "reject" => outcome.error.name = "TestError"
         /\ sawTrue => outcome = Resolved("undefined")
         /\ (~sawTrue /\ ~sawThrow) =>
              /\ outcome.kind = "reject"
              /\ outcome.error.message = <<ValueOf(options.errorMessage)>>
              /\ outcome.error.context = context
              /\ outcome.error.originalError = NoId
         /\ (sawThrow /\ caught.name # "TestError") =>
              /\ outcome.kind = "reject"
              /\ outcome.error.message = <<ValueOf(options.errorMessage)>>
              /\ outcome.error.context = context
              /\ outcome.error.originalError = caught.id
C25_Witness ==
    /\ Settled("assertCondition")
    /\ sawThrow
    /\ caught.name = "TimeoutError"
    /\ outcome.kind = "reject"
    /\ outcome.error.originalError = caught.id

\* C26 (as stated): whenever assertCondition rejects, the error's message is
\* the errorMessage argument and its context the context argument, also when
\* the condition threw a TestError of its own.
C26_AssertErrorOfArguments ==
    (Settled("assertCondition") /\ outcome.kind = "reject") =>
        /\ outcome.error.message = <<ValueOf(options.errorMessage)>>
        /\ outcome.error.context = context
\* C26 (amended): a TestError thrown by the condition leaves assertCondition
\* unchanged, with the message and context it was built with; every other
\* rejection carries the errorMessage and context arguments.
C26_NestedTestErrorRethrown ==
    (Settled("assertCondition") /\ outcome.kind = "reject") =>
        IF sawThrow /\ caught.name = "TestError"
        THEN outcome.error = caught
        ELSE /\ outcome.error.message = <<ValueOf(options.errorMessage)>>
             /\ outcome.error.context = context
C26_Witness ==
    /\ Settled("assertCondition")
    /\ sawThrow
    /\ outcome.kind = "reject"
    /\ outcome.error.context = "ctxC"
    /\ outcome.error.message = <<"inner">>
    /\ context = "ctxA"

\* the contexts the hooks still hold a reference to
TrackedContexts == IF hookContext = 0 THEN {} ELSE {hookContext}

C27_TeardownNeverRejects ==
    /\ hookResult.hook \in {"After", "AfterAll"} => hookResult.kind = "resolve"
    /\ (hookResult.hook = "After" /\ hook = "idle") => hookContext = 0
C27_Witness ==
    /\ hook = "idle"
    /\ hookResult = HookResult("AfterAll", "resolve", "browser.close")
    /\ abandoned # {}
    /\ hookContext = 0

\* C28: in the hooks with artifact capture, once After has finished the
\* context created by the scenario's Before is closed, whatever the status of
\* the scenario and also when a failure-artifact step threw (stated for the
\* scenarios whose Before stored the page, and for a close() that did not
\* itself reject).
C28_AfterClosesContext ==
    (cfgHook = "done" /\ cfgContext # "none" /\ worldPage /\ failedStep # "context.close")
        => cfgContext = "closed"

\* C23: the TestDataManager caches per file name. The cache holds, for every
\* file name, the value of the latest successful saveToFile or file read since
\* the last clearCache, so a call that throws leaves it unchanged;
\* loadFromFile returns that value without reading the file when there is one,
\* and reads the file when there is none, as after clearCache.
C23_CachePerFileName ==
    /\ \A f \in FileNames : dataCache[[prefix |-> "file:", name |-> f]] = latest[f]
    /\ lastCall.op = "loadFromFile" =>
         /\ lastCall.prior # Absent =>
              /\ lastCall.kind = "return"
              /\ lastCall.value = lastCall.prior
              /\ ~lastCall.read
         /\ lastCall.prior = Absent => lastCall.read
         /\ lastCall.kind = "return" => lastCall.value = latest[lastCall.file]
C23_Witness ==
    /\ lastCall = Call("loadFromFile", "users.json", "return", "withDate", "withDate", FALSE)
    /\ disk["users.json"] = Garbage
    /\ latest["products.json"] = "users"

\* C29: once every started test case has been finished, scenarios.length
\* equals stats.total, and passed + failed + skipped + pending never exceeds
\* stats.total, also when the test cases of parallel workers overlap.
C29_CountersConsistent ==
    /\ stats.passed + stats.failed + stats.skipped + stats.pending <= stats.total
    /\ inFlight = {} => Len(scenarios) = stats.total

\* C30: while capture is on, each request event adds exactly one log entry,
\* and a response sets status and duration on the entry its own request
\* created and on no other, for any interleaving of requests and responses.
C30_ResponseMatchesOwnRequest ==
    /\ \A id \in captured :
         Cardinality({i \in 1..Len(networkLogs) : networkLogs[i].request = id}) = 1
    /\ \A i \in 1..Len(networkLogs) :
         networkLogs[i].status # Undefined =>
             networkLogs[i].responder = networkLogs[i].request

====
